---- MODULE Spec2Model ----
(***************************************************************************)
(* TDL -> JSON Schema converter (OpenAI Structured Outputs and Gemini      *)
(* jsonschema_gemini emitters) as a state machine.                         *)
(*                                                                         *)
(* Encoding of JavaScript values:                                          *)
(*  - a JS Map / plain object is a sequence of [key, val] entries in       *)
(*    enumeration order;                                                   *)
(*  - a literal value (string | number | boolean) is [t, v] with t its     *)
(*    typeof and v its String() rendering;                                 *)
(*  - the schema field `type` is the tuple of its type names: the bare     *)
(*    string "number" is <<"number">>, the array ["number","null"] is      *)
(*    <<"number","null">>;                                                 *)
(*  - the JSON booleans false / true in schema position are JsFalse and    *)
(*    JsTrue; the field `$ref` is `ref`, holding the JSON pointer as its   *)
(*    path segments; the field `$defs` is `defs`.                          *)
(*  - the result of a call that may throw is [ctx, val, err]; err = NoErr  *)
(*    is a normal return.                                                  *)
(***************************************************************************)
EXTENDS Integers, Sequences, FiniteSets, TLC

\* ------------------------------------------------------------------ bounds
MaxTypes == 2
MaxSymbols == 1
StackLimit == 8

\* ------------------------------------------------------- JS value helpers
NoErr == ""
Undefined == [undefined |-> TRUE]
ErrUnknownRef == "Unknown type reference"
ErrUnknownType == "Unknown type"
ErrNotObjectLike == "Intersection operands must be object-like"
ErrStringIndex == "OpenAI schema: string index signatures (maps) are not supported"
ErrRange == "RangeError: Maximum call stack size exceeded"

JsFalse == [bool |-> FALSE]
JsTrue == [bool |-> TRUE]

\* an entry of a context's history: what ensureDef did for a name, and the
\* visitation stack at that moment
Event(ev, name, stack) == [ev |-> ev, name |-> name, stack |-> stack]

Ok(ctx, v) == [ctx |-> ctx, val |-> v, err |-> NoErr]
Fail(ctx, e) == [ctx |-> ctx, val |-> Undefined, err |-> e]

Range(s) == {s[i] : i \in DOMAIN s}

\* Map.has / Map.get on an insertion-ordered Map
MapHas(m, k) == \E i \in DOMAIN m : m[i].key = k
MapGet(m, k) == m[CHOOSE i \in DOMAIN m : m[i].key = k].val
MapKeys(m) == [i \in DOMAIN m |-> m[i].key]

\* Map.set: an existing key keeps its position, a new key is appended
MapSet(m, k, v) ==
  IF MapHas(m, k)
    THEN [i \in DOMAIN m |-> IF m[i].key = k THEN [key |-> k, val |-> v] ELSE m[i]]
    ELSE Append(m, [key |-> k, val |-> v])

\* The keys of the model's vocabulary that are canonical array indices
\* ("1", "2"): a plain object enumerates those first, in ascending order.
ArrayIndex(k) == IF k = "1" THEN 1 ELSE IF k = "2" THEN 2 ELSE -1

\* obj[k] = v on a plain object: an existing key keeps its position; a new
\* integer-like key goes after the smaller integer-like keys, any other new
\* key goes last.
ObjSet(o, k, v) ==
  IF MapHas(o, k) THEN MapSet(o, k, v)
  ELSE IF ArrayIndex(k) < 0 THEN Append(o, [key |-> k, val |-> v])
  ELSE LET before == SelectSeq(o, LAMBDA e : ArrayIndex(e.key) >= 0 /\ ArrayIndex(e.key) < ArrayIndex(k))
           after == SelectSeq(o, LAMBDA e : ~(ArrayIndex(e.key) >= 0 /\ ArrayIndex(e.key) < ArrayIndex(k)))
       IN before \o <<[key |-> k, val |-> v]>> \o after

RECURSIVE fromEntriesFrom(_, _, _)
fromEntriesFrom(m, i, acc) ==
  IF i > Len(m) THEN acc ELSE fromEntriesFrom(m, i + 1, ObjSet(acc, m[i].key, m[i].val))

\* Object.fromEntries(map)
fromEntries(m) == fromEntriesFrom(m, 1, <<>>)

\* ------------------------------------------------------- pure helpers
primitiveToSchema(name) ==
  CASE name \in {"string", "typedoc", "image", "audio", "video"} -> [type |-> <<"string">>]
    [] name = "number" -> [type |-> <<"number">>]
    [] name = "boolean" -> [type |-> <<"boolean">>]
    [] name = "never" -> [type |-> <<"number">>, minimum |-> 1, maximum |-> 0]
    [] OTHER -> [type |-> <<"string">>]

arrayOf(item) == [type |-> <<"array">>, items |-> item]

makeNullable(schema) ==
  IF "type" \in DOMAIN schema
    THEN IF Len(schema.type) = 1
           THEN [schema EXCEPT !.type = <<schema.type[1], "null">>]
           ELSE IF "null" \notin Range(schema.type)
                  THEN [schema EXCEPT !.type = Append(schema.type, "null")]
                  ELSE schema
    ELSE [anyOf |-> <<schema, [type |-> <<"null">>]>>]

isScalarLiteral(n) == n.kind \in {"string-literal", "number-literal", "boolean-literal"}

literalValue(n) ==
  CASE n.kind = "string-literal" -> [t |-> "string", v |-> n.value]
    [] n.kind = "number-literal" -> [t |-> "number", v |-> n.value]
    [] n.kind = "boolean-literal" -> [t |-> "boolean", v |-> n.value]

\* mutant: every literal union is typed "string"
unionLiteralType_string(values) == "string"

unionLiteralType(values) ==
  LET types == {values[i].t : i \in DOMAIN values}
  IN IF Cardinality(types) = 1 /\ (CHOOSE t \in types : TRUE) \in {"string", "number", "boolean"}
       THEN CHOOSE t \in types : TRUE
       ELSE "undefined"

isNeverSchema(s) ==
  /\ "type" \in DOMAIN s
  /\ s.type = <<"number">>
  /\ "minimum" \in DOMAIN s
  /\ "maximum" \in DOMAIN s
  /\ s.minimum > s.maximum

\* String(key) of a literal key
KeyName(key) == key.v

\* ------------------------------------------------------- OpenAI emitter
\* new EmitCtxOpenAI(doc). history is not a field of the class: it records what
\* ensureDef did during the run, one event per placeholder installed, body
\* emission begun and definition stored, each with the stack at that moment
EmitCtxOpenAI(doc) == [doc |-> doc, defs |-> <<>>, stack |-> {}, history |-> <<>>]

OpenAIPlaceholder ==
  [type |-> <<"object">>, properties |-> <<>>, required |-> <<>>, additionalProperties |-> JsFalse]

\* mutant: the schema is made nullable before it is wrapped as an array
O_finalSchema_nullableFirst(schema, isArray, optional) ==
  IF isArray THEN arrayOf(IF optional THEN makeNullable(schema) ELSE schema)
  ELSE IF optional THEN makeNullable(schema) ELSE schema

\* const withArray = isArray ? arrayOf(schema) : schema;
\* const final = optional ? makeNullable(withArray) : withArray
O_finalSchema(schema, isArray, optional) ==
  IF optional THEN makeNullable(IF isArray THEN arrayOf(schema) ELSE schema)
  ELSE IF isArray THEN arrayOf(schema) ELSE schema

RECURSIVE O_resolveObject(_, _, _)
RECURSIVE O_mergeLoop(_, _, _, _, _, _, _)

\* props.forEach(ip => outProps.set(ip.name, ip))
RECURSIVE setProps(_, _, _)
\* mutant: a name already merged is kept (leftmost wins)
setProps_keepFirst(outProps, props, i) ==
  IF i > Len(props) THEN outProps
  ELSE setProps(IF MapHas(outProps, props[i].name) THEN outProps
                ELSE MapSet(outProps, props[i].name, props[i]), props, i + 1)

setProps(outProps, props, i) ==
  IF i > Len(props) THEN outProps
  ELSE setProps(MapSet(outProps, props[i].name, props[i]), props, i + 1)

\* one iteration of mergeObjects' loop, r = resolveObject(parts[i])
O_mergePart(r, ctx, parts, i, outProps, outIdx, closed, depth) ==
  IF r.err # NoErr THEN r
  ELSE O_mergeLoop(ctx, parts, i + 1, setProps(outProps, r.val.props, 1),
                   outIdx \o r.val.indexSigs, closed \/ r.val.closed, depth)

\* the loop of mergeObjects over parts, from part i on
O_mergeLoop(ctx, parts, i, outProps, outIdx, closed, depth) ==
  IF i > Len(parts)
    THEN Ok(ctx, [kind |-> "object", props |-> [j \in DOMAIN outProps |-> outProps[j].val],
                  indexSigs |-> outIdx, closed |-> closed])
    ELSE O_mergePart(O_resolveObject(ctx, parts[i], depth + 1),
                     ctx, parts, i, outProps, outIdx, closed, depth)

\* depth is the number of nested resolveObject / mergeObjects frames; the
\* engine raises RangeError when the call stack is exhausted.
O_mergeObjects(ctx, parts, depth) ==
  IF depth > StackLimit THEN Fail(ctx, ErrRange)
  ELSE O_mergeLoop(ctx, parts, 1, <<>>, <<>>, FALSE, depth)

O_resolveObject(ctx, node, depth) ==
  IF depth > StackLimit THEN Fail(ctx, ErrRange)
  ELSE IF node.kind = "object" THEN Ok(ctx, node)
  ELSE IF node.kind = "type-ref"
    THEN IF ~MapHas(ctx.doc.types, node.name) THEN Fail(ctx, ErrUnknownType)
         ELSE O_resolveObject(ctx, MapGet(ctx.doc.types, node.name).node, depth + 1)
  ELSE IF node.kind = "intersection" THEN O_mergeObjects(ctx, node.members, depth + 1)
  ELSE Fail(ctx, ErrNotObjectLike)

RECURSIVE O_emit(_, _)
RECURSIVE O_ensureDef(_, _)
RECURSIVE O_emitObject(_, _)
RECURSIVE O_emitMembers(_, _, _, _)
RECURSIVE O_emitIndexSigs(_, _, _, _, _)
RECURSIVE O_emitKeys(_, _, _, _, _)
RECURSIVE O_emitProps(_, _, _, _, _)

\* mutant: a placeholder installed during the emission is kept; the emitted
\* schema is stored only for a name that has no entry yet
O_storeDef_keepPlaceholder(r, name) ==
  IF r.err # NoErr THEN r
  ELSE Ok([r.ctx EXCEPT !.stack = r.ctx.stack \ {name},
                        !.defs = IF MapHas(r.ctx.defs, name) THEN r.ctx.defs
                                 ELSE MapSet(r.ctx.defs, name, r.val),
                        !.history = Append(r.ctx.history,
                                           Event("store", name, r.ctx.stack \ {name}))],
          Undefined)

\* this.stack.delete(name); this.defs.set(name, schema), r = emit(def.node)
O_storeDef(r, name) ==
  IF r.err # NoErr THEN r
  ELSE Ok([r.ctx EXCEPT !.stack = r.ctx.stack \ {name},
                        !.defs = MapSet(r.ctx.defs, name, r.val),
                        !.history = Append(r.ctx.history,
                                           Event("store", name, r.ctx.stack \ {name}))],
          Undefined)

\* mutant: a name without a declaration is passed over instead of rejected
O_ensureDef_lenient(ctx, name) ==
  IF MapHas(ctx.defs, name) THEN Ok(ctx, Undefined)
  ELSE IF name \in ctx.stack
    THEN Ok([ctx EXCEPT !.defs = MapSet(ctx.defs, name, OpenAIPlaceholder),
                        !.history = Append(ctx.history, Event("placeholder", name, ctx.stack))],
            Undefined)
  ELSE IF ~MapHas(ctx.doc.types, name) THEN Ok(ctx, Undefined)
  ELSE O_storeDef(O_emit([ctx EXCEPT !.stack = ctx.stack \cup {name},
                                     !.history = Append(ctx.history,
                                                        Event("emit", name, ctx.stack))],
                         MapGet(ctx.doc.types, name).node), name)

O_ensureDef(ctx, name) ==
  IF MapHas(ctx.defs, name) THEN Ok(ctx, Undefined)
  ELSE IF name \in ctx.stack
    THEN Ok([ctx EXCEPT !.defs = MapSet(ctx.defs, name, OpenAIPlaceholder),
                        !.history = Append(ctx.history, Event("placeholder", name, ctx.stack))],
            Undefined)
  ELSE IF ~MapHas(ctx.doc.types, name) THEN Fail(ctx, ErrUnknownRef)
  ELSE O_storeDef(O_emit([ctx EXCEPT !.stack = ctx.stack \cup {name},
                                     !.history = Append(ctx.history,
                                                        Event("emit", name, ctx.stack))],
                         MapGet(ctx.doc.types, name).node), name)

\* mutant: the member schemas are collected in reverse order
O_emitMember_reversed(r, members, i, acc) ==
  IF r.err # NoErr THEN r
  ELSE O_emitMembers(r.ctx, members, i + 1, <<r.val>> \o acc)

\* one step of the map over node.members, r = emit(members[i])
O_emitMember(r, members, i, acc) ==
  IF r.err # NoErr THEN r
  ELSE O_emitMembers(r.ctx, members, i + 1, Append(acc, r.val))

\* node.members.map(m => this.emit(m)), from member i on
O_emitMembers(ctx, members, i, acc) ==
  IF i > Len(members) THEN Ok(ctx, acc)
  ELSE O_emitMember(O_emit(ctx, members[i]), members, i, acc)

\* case "type-ref": return { $ref: ... } after ensureDef(node.name)
O_emitRef(r, name) ==
  IF r.err # NoErr THEN r ELSE Ok(r.ctx, [ref |-> <<"#", "$defs", name>>])

\* case "union", all members scalar literals
O_emitEnum(ctx, enums, type) ==
  IF type # "undefined" THEN Ok(ctx, [enum |-> enums, type |-> <<type>>])
  ELSE Ok(ctx, [enum |-> enums])

\* case "union", otherwise: { anyOf: members.map(emit) }
O_emitAnyOf(r) ==
  IF r.err # NoErr THEN r ELSE Ok(r.ctx, [anyOf |-> r.val])

\* case "intersection": emitObject(mergeObjects(ctx, node.members))
O_emitMerged(ctx, m) ==
  IF m.err # NoErr THEN m ELSE O_emitObject(ctx, m.val)

O_emit(ctx, node) ==
  CASE node.kind = "primitive" -> Ok(ctx, primitiveToSchema(node.name))
    [] node.kind = "string-literal" ->
         Ok(ctx, [type |-> <<"string">>, enum |-> <<[t |-> "string", v |-> node.value]>>])
    [] node.kind = "number-literal" ->
         Ok(ctx, [type |-> <<"number">>, enum |-> <<[t |-> "number", v |-> node.value]>>])
    [] node.kind = "boolean-literal" ->
         Ok(ctx, [type |-> <<"boolean">>, enum |-> <<[t |-> "boolean", v |-> node.value]>>])
    [] node.kind = "type-ref" -> O_emitRef(O_ensureDef(ctx, node.name), node.name)
    [] node.kind = "union" ->
         IF \A i \in DOMAIN node.members : isScalarLiteral(node.members[i])
           THEN O_emitEnum(ctx, [i \in DOMAIN node.members |-> literalValue(node.members[i])],
                           unionLiteralType([i \in DOMAIN node.members |->
                                               literalValue(node.members[i])]))
           ELSE O_emitAnyOf(O_emitMembers(ctx, node.members, 1, <<>>))
    [] node.kind = "intersection" ->
         O_emitMerged(ctx, O_mergeObjects(ctx, node.members, 1))
    [] node.kind = "object" -> O_emitObject(ctx, node)

\* one key of an enum signature, r = emit(idx.valueType)
O_emitKey(r, idx, j, properties, required) ==
  IF r.err # NoErr THEN r
  ELSE O_emitKeys(r.ctx, idx, j + 1,
                  ObjSet(properties, KeyName(idx.keys[j]),
                         O_finalSchema(r.val, idx.isArray, idx.optional)),
                  Append(required, KeyName(idx.keys[j])))

\* the loop over idx.keys, from key j on
O_emitKeys(ctx, idx, j, properties, required) ==
  IF j > Len(idx.keys) THEN Ok(ctx, [properties |-> properties, required |-> required])
  ELSE O_emitKey(O_emit(ctx, idx.valueType), idx, j, properties, required)

\* after one enum signature, r = the properties and required it added
O_nextIndexSig(r, sigs, i) ==
  IF r.err # NoErr THEN r
  ELSE O_emitIndexSigs(r.ctx, sigs, i + 1, r.val.properties, r.val.required)

\* the closure-sugar test, r = emit(idx.valueType)
O_closureSugar(r, sigs, i, properties, required) ==
  IF r.err # NoErr THEN r
  ELSE IF ~isNeverSchema(r.val) THEN Fail(r.ctx, ErrStringIndex)
  ELSE O_emitIndexSigs(r.ctx, sigs, i + 1, properties, required)

\* mutant: a string index signature is skipped instead of rejected
O_emitStringSig_skip(ctx, sigs, i, properties, required) ==
  O_emitIndexSigs(ctx, sigs, i + 1, properties, required)

\* if (idx.kind === "string") { ... }
O_emitStringSig(ctx, sigs, i, properties, required) ==
  IF ~sigs[i].optional THEN Fail(ctx, ErrStringIndex)
  ELSE O_closureSugar(O_emit(ctx, sigs[i].valueType), sigs, i, properties, required)

\* the loop over obj.indexSigs, from signature i on
O_emitIndexSigs(ctx, sigs, i, properties, required) ==
  IF i > Len(sigs) THEN Ok(ctx, [properties |-> properties, required |-> required])
  ELSE IF sigs[i].kind = "string" THEN O_emitStringSig(ctx, sigs, i, properties, required)
  ELSE O_nextIndexSig(O_emitKeys(ctx, sigs[i], 1, properties, required), sigs, i)

\* one property, r = emit(p.type)
O_emitProp(r, props, i, properties, required) ==
  IF r.err # NoErr THEN r
  ELSE O_emitProps(r.ctx, props, i + 1,
                   ObjSet(properties, props[i].name,
                          O_finalSchema(r.val, props[i].isArray, props[i].optional)),
                   Append(required, props[i].name))

\* the loop over obj.props, from property i on
O_emitProps(ctx, props, i, properties, required) ==
  IF i > Len(props) THEN Ok(ctx, [properties |-> properties, required |-> required])
  ELSE O_emitProp(O_emit(ctx, props[i].type), props, i, properties, required)

\* mutant: object schemas left open
O_objectSchema_open(r) ==
  IF r.err # NoErr THEN r
  ELSE Ok(r.ctx, [type |-> <<"object">>, properties |-> r.val.properties,
                  required |-> r.val.required, additionalProperties |-> JsTrue])

\* return { type: "object", properties, required, additionalProperties: false }
O_objectSchema(r) ==
  IF r.err # NoErr THEN r
  ELSE Ok(r.ctx, [type |-> <<"object">>, properties |-> r.val.properties,
                  required |-> r.val.required, additionalProperties |-> JsFalse])

\* the loop over obj.props, r = the outcome of the loop over obj.indexSigs
O_emitObjectProps(r, obj) ==
  IF r.err # NoErr THEN r
  ELSE O_emitProps(r.ctx, obj.props, 1, r.val.properties, r.val.required)

O_emitObject(ctx, obj) ==
  O_objectSchema(O_emitObjectProps(O_emitIndexSigs(ctx, obj.indexSigs, 1, <<>>, <<>>), obj))

RECURSIVE O_ensureAll(_, _)
\* one step of the eager pass, r = ensureDef(name)
O_ensureNext(r, i) ==
  IF r.err # NoErr THEN r ELSE O_ensureAll(r.ctx, i + 1)

\* mutant: no eager pass, definitions are emitted only when referenced
O_ensureAll_lazy(ctx, i) == Ok(ctx, Undefined)

\* for (const [name] of doc.types) ctx.ensureDef(name), from entry i on
O_ensureAll(ctx, i) ==
  IF i > Len(ctx.doc.types) THEN Ok(ctx, Undefined)
  ELSE O_ensureNext(O_ensureDef(ctx, ctx.doc.types[i].key), i)

RECURSIVE O_emitSymbols(_, _, _, _)
\* one symbol, r = emit(sym.type)
O_emitSymbol(r, i, properties, required) ==
  IF r.err # NoErr THEN r
  ELSE O_emitSymbols(r.ctx, i + 1,
                     ObjSet(properties, r.ctx.doc.symbols[i].name,
                            O_finalSchema(r.val, r.ctx.doc.symbols[i].isArray,
                                          r.ctx.doc.symbols[i].optional)),
                     Append(required, r.ctx.doc.symbols[i].name))

\* the loop over doc.symbols of generateOpenAISchema, from symbol i on
O_emitSymbols(ctx, i, properties, required) ==
  IF i > Len(ctx.doc.symbols) THEN Ok(ctx, [properties |-> properties, required |-> required])
  ELSE O_emitSymbol(O_emit(ctx, ctx.doc.symbols[i].type), i, properties, required)

\* the root object, r = the outcome of the loop over doc.symbols
O_rootSchema(r) ==
  IF r.err # NoErr THEN r
  ELSE Ok(r.ctx, [type |-> <<"object">>, properties |-> r.val.properties,
                  required |-> r.val.required, additionalProperties |-> JsFalse,
                  defs |-> fromEntries(r.ctx.defs)])

\* the loop over doc.symbols, r = the outcome of the eager pass
O_rootSymbols(r) ==
  IF r.err # NoErr THEN r ELSE O_emitSymbols(r.ctx, 1, <<>>, <<>>)

generateOpenAISchema(doc) ==
  O_rootSchema(O_rootSymbols(O_ensureAll(EmitCtxOpenAI(doc), 1)))

\* ------------------------------------------------------- Gemini emitter
\* new EmitCtxGemini(doc). history is not a field of the class: it records what
\* ensureDef did during the run, one event per placeholder installed, body
\* emission begun and definition stored, each with the stack at that moment
EmitCtxGemini(doc) == [doc |-> doc, defs |-> <<>>, stack |-> {}, history |-> <<>>]

GeminiPlaceholder ==
  [type |-> <<"object">>, properties |-> <<>>, required |-> <<>>, additionalProperties |-> JsTrue]

\* isNever(schema) of the Gemini emitter
G_isNever(s) ==
  /\ "type" \in DOMAIN s
  /\ s.type = <<"number">>
  /\ "minimum" \in DOMAIN s
  /\ "maximum" \in DOMAIN s
  /\ s.minimum > s.maximum

\* const withArray = isArray ? arrayOf(base) : base
G_withArray(base, isArray) == IF isArray THEN arrayOf(base) ELSE base

\* mutant: optional names are listed as required and required ones are not
G_pushRequired_inverted(required, name, optional) ==
  IF optional THEN Append(required, name) ELSE required

\* if (!optional) required.push(name)
G_pushRequired(required, name, optional) ==
  IF ~optional THEN Append(required, name) ELSE required

RECURSIVE G_resolveObject(_, _, _)
RECURSIVE G_mergeLoop(_, _, _, _, _, _, _)

\* one iteration of mergeObjects' loop, r = resolveObject(parts[i])
G_mergePart(r, ctx, parts, i, outProps, outIdx, closed, depth) ==
  IF r.err # NoErr THEN r
  ELSE G_mergeLoop(ctx, parts, i + 1, setProps(outProps, r.val.props, 1),
                   outIdx \o r.val.indexSigs, closed \/ r.val.closed, depth)

G_mergeLoop(ctx, parts, i, outProps, outIdx, closed, depth) ==
  IF i > Len(parts)
    THEN Ok(ctx, [kind |-> "object", props |-> [j \in DOMAIN outProps |-> outProps[j].val],
                  indexSigs |-> outIdx, closed |-> closed])
    ELSE G_mergePart(G_resolveObject(ctx, parts[i], depth + 1),
                     ctx, parts, i, outProps, outIdx, closed, depth)

G_mergeObjects(ctx, parts, depth) ==
  IF depth > StackLimit THEN Fail(ctx, ErrRange)
  ELSE G_mergeLoop(ctx, parts, 1, <<>>, <<>>, FALSE, depth)

G_resolveObject(ctx, node, depth) ==
  IF depth > StackLimit THEN Fail(ctx, ErrRange)
  ELSE IF node.kind = "object" THEN Ok(ctx, node)
  ELSE IF node.kind = "type-ref"
    THEN IF ~MapHas(ctx.doc.types, node.name) THEN Fail(ctx, ErrUnknownType)
         ELSE G_resolveObject(ctx, MapGet(ctx.doc.types, node.name).node, depth + 1)
  ELSE IF node.kind = "intersection" THEN G_mergeObjects(ctx, node.members, depth + 1)
  ELSE Fail(ctx, ErrNotObjectLike)

RECURSIVE G_emit(_, _)
RECURSIVE G_ensureDef(_, _)
RECURSIVE G_emitObject(_, _)
RECURSIVE G_emitMembers(_, _, _, _)
RECURSIVE G_emitIndexSigs(_, _, _, _, _, _)
RECURSIVE G_emitKeys(_, _, _, _, _)
RECURSIVE G_emitProps(_, _, _, _, _)

\* this.stack.delete(name); this.defs.set(name, schema), r = emit(def.node)
G_storeDef(r, name) ==
  IF r.err # NoErr THEN r
  ELSE Ok([r.ctx EXCEPT !.stack = r.ctx.stack \ {name},
                        !.defs = MapSet(r.ctx.defs, name, r.val),
                        !.history = Append(r.ctx.history,
                                           Event("store", name, r.ctx.stack \ {name}))],
          Undefined)

G_ensureDef(ctx, name) ==
  IF MapHas(ctx.defs, name) THEN Ok(ctx, Undefined)
  ELSE IF name \in ctx.stack
    THEN Ok([ctx EXCEPT !.defs = MapSet(ctx.defs, name, GeminiPlaceholder),
                        !.history = Append(ctx.history, Event("placeholder", name, ctx.stack))],
            Undefined)
  ELSE IF ~MapHas(ctx.doc.types, name) THEN Fail(ctx, ErrUnknownRef)
  ELSE G_storeDef(G_emit([ctx EXCEPT !.stack = ctx.stack \cup {name},
                                     !.history = Append(ctx.history,
                                                        Event("emit", name, ctx.stack))],
                         MapGet(ctx.doc.types, name).node), name)

\* one step of the map over node.members, r = emit(members[i])
G_emitMember(r, members, i, acc) ==
  IF r.err # NoErr THEN r
  ELSE G_emitMembers(r.ctx, members, i + 1, Append(acc, r.val))

G_emitMembers(ctx, members, i, acc) ==
  IF i > Len(members) THEN Ok(ctx, acc)
  ELSE G_emitMember(G_emit(ctx, members[i]), members, i, acc)

\* case "type-ref": return { $ref: ... } after ensureDef(node.name)
G_emitRef(r, name) ==
  IF r.err # NoErr THEN r ELSE Ok(r.ctx, [ref |-> <<"#", "$defs", name>>])

\* case "union", all members scalar literals
G_emitEnum(ctx, enums, type) ==
  IF type # "undefined" THEN Ok(ctx, [enum |-> enums, type |-> <<type>>])
  ELSE Ok(ctx, [enum |-> enums])

\* case "union", otherwise: { anyOf: members.map(emit) }
G_emitAnyOf(r) ==
  IF r.err # NoErr THEN r ELSE Ok(r.ctx, [anyOf |-> r.val])

\* case "intersection": emitObject(mergeObjects(this, node.members))
G_emitMerged(ctx, m) ==
  IF m.err # NoErr THEN m ELSE G_emitObject(ctx, m.val)

G_emit(ctx, node) ==
  CASE node.kind = "primitive" -> Ok(ctx, primitiveToSchema(node.name))
    [] node.kind = "string-literal" ->
         Ok(ctx, [type |-> <<"string">>, enum |-> <<[t |-> "string", v |-> node.value]>>])
    [] node.kind = "number-literal" ->
         Ok(ctx, [type |-> <<"number">>, enum |-> <<[t |-> "number", v |-> node.value]>>])
    [] node.kind = "boolean-literal" ->
         Ok(ctx, [type |-> <<"boolean">>, enum |-> <<[t |-> "boolean", v |-> node.value]>>])
    [] node.kind = "type-ref" -> G_emitRef(G_ensureDef(ctx, node.name), node.name)
    [] node.kind = "union" ->
         IF \A i \in DOMAIN node.members : isScalarLiteral(node.members[i])
           THEN G_emitEnum(ctx, [i \in DOMAIN node.members |-> literalValue(node.members[i])],
                           unionLiteralType([i \in DOMAIN node.members |->
                                               literalValue(node.members[i])]))
           ELSE G_emitAnyOf(G_emitMembers(ctx, node.members, 1, <<>>))
    [] node.kind = "intersection" ->
         G_emitMerged(ctx, G_mergeObjects(ctx, node.members, 1))
    [] node.kind = "object" -> G_emitObject(ctx, node)

\* one key of an enum signature, r = emit(idx.valueType)
G_emitKey(r, idx, j, properties, required) ==
  IF r.err # NoErr THEN r
  ELSE G_emitKeys(r.ctx, idx, j + 1,
                  ObjSet(properties, KeyName(idx.keys[j]), G_withArray(r.val, idx.isArray)),
                  G_pushRequired(required, KeyName(idx.keys[j]), idx.optional))

\* the loop over idx.keys, from key j on
G_emitKeys(ctx, idx, j, properties, required) ==
  IF j > Len(idx.keys) THEN Ok(ctx, [properties |-> properties, required |-> required])
  ELSE G_emitKey(G_emit(ctx, idx.valueType), idx, j, properties, required)

\* after one enum signature, r = the properties and required it added
G_nextIndexSig(r, sigs, i, additionalProps) ==
  IF r.err # NoErr THEN r
  ELSE G_emitIndexSigs(r.ctx, sigs, i + 1, r.val.properties, r.val.required, additionalProps)

\* additionalProps = valSchema, r = the second emit(idx.valueType)
G_mapValue(r, sigs, i, properties, required) ==
  IF r.err # NoErr THEN r
  ELSE G_emitIndexSigs(r.ctx, sigs, i + 1, properties, required,
                       G_withArray(r.val, sigs[i].isArray))

\* if (!(idx.optional && isNever(t))) ... else additionalProps = false,
\* t = the emit(idx.valueType) inside the condition
G_closureSugar(t, sigs, i, properties, required) ==
  IF t.err # NoErr THEN t
  ELSE IF ~G_isNever(t.val)
    THEN G_mapValue(G_emit(t.ctx, sigs[i].valueType), sigs, i, properties, required)
  ELSE G_emitIndexSigs(t.ctx, sigs, i + 1, properties, required, JsFalse)

\* if (idx.kind === "string") { ... }
G_emitStringSig(ctx, sigs, i, properties, required) ==
  IF sigs[i].optional
    THEN G_closureSugar(G_emit(ctx, sigs[i].valueType), sigs, i, properties, required)
  ELSE G_mapValue(G_emit(ctx, sigs[i].valueType), sigs, i, properties, required)

\* the loop over obj.indexSigs, from signature i on; additionalProps is the
\* local of emitObject
G_emitIndexSigs(ctx, sigs, i, properties, required, additionalProps) ==
  IF i > Len(sigs)
    THEN Ok(ctx, [properties |-> properties, required |-> required,
                  additionalProps |-> additionalProps])
  ELSE IF sigs[i].kind = "string" THEN G_emitStringSig(ctx, sigs, i, properties, required)
  ELSE G_nextIndexSig(G_emitKeys(ctx, sigs[i], 1, properties, required), sigs, i,
                      additionalProps)

\* one property, r = emit(p.type)
G_emitProp(r, props, i, properties, required) ==
  IF r.err # NoErr THEN r
  ELSE G_emitProps(r.ctx, props, i + 1,
                   ObjSet(properties, props[i].name, G_withArray(r.val, props[i].isArray)),
                   G_pushRequired(required, props[i].name, props[i].optional))

\* the loop over obj.props, from property i on
G_emitProps(ctx, props, i, properties, required) ==
  IF i > Len(props) THEN Ok(ctx, [properties |-> properties, required |-> required])
  ELSE G_emitProp(G_emit(ctx, props[i].type), props, i, properties, required)

\* return { type: "object", properties, required, additionalProperties: additionalProps }
G_objectSchema(r, additionalProps) ==
  IF r.err # NoErr THEN r
  ELSE Ok(r.ctx, [type |-> <<"object">>, properties |-> r.val.properties,
                  required |-> r.val.required, additionalProperties |-> additionalProps])

\* the loop over obj.props, r = the outcome of the loop over obj.indexSigs
G_emitObjectProps(r, obj) ==
  IF r.err # NoErr THEN r
  ELSE G_objectSchema(G_emitProps(r.ctx, obj.props, 1, r.val.properties, r.val.required),
                      r.val.additionalProps)

G_emitObject(ctx, obj) ==
  G_emitObjectProps(G_emitIndexSigs(ctx, obj.indexSigs, 1, <<>>, <<>>,
                                    IF obj.closed THEN JsFalse ELSE JsTrue), obj)

RECURSIVE G_ensureAll(_, _)
\* one step of the eager pass, r = ensureDef(name)
G_ensureNext(r, i) ==
  IF r.err # NoErr THEN r ELSE G_ensureAll(r.ctx, i + 1)

\* for (const [name] of doc.types) ctx.ensureDef(name), from entry i on
G_ensureAll(ctx, i) ==
  IF i > Len(ctx.doc.types) THEN Ok(ctx, Undefined)
  ELSE G_ensureNext(G_ensureDef(ctx, ctx.doc.types[i].key), i)

RECURSIVE G_emitSymbols(_, _, _, _)
\* one symbol, r = emit(sym.type)
G_emitSymbol(r, i, properties, required) ==
  IF r.err # NoErr THEN r
  ELSE G_emitSymbols(r.ctx, i + 1,
                     ObjSet(properties, r.ctx.doc.symbols[i].name,
                            G_withArray(r.val, r.ctx.doc.symbols[i].isArray)),
                     G_pushRequired(required, r.ctx.doc.symbols[i].name,
                                    r.ctx.doc.symbols[i].optional))

\* the loop over doc.symbols of generateGeminiSchema, from symbol i on
G_emitSymbols(ctx, i, properties, required) ==
  IF i > Len(ctx.doc.symbols) THEN Ok(ctx, [properties |-> properties, required |-> required])
  ELSE G_emitSymbol(G_emit(ctx, ctx.doc.symbols[i].type), i, properties, required)

\* the root object, r = the outcome of the loop over doc.symbols
G_rootSchema(r) ==
  IF r.err # NoErr THEN r
  ELSE Ok(r.ctx, [type |-> <<"object">>, properties |-> r.val.properties,
                  required |-> r.val.required, additionalProperties |-> JsFalse,
                  defs |-> fromEntries(r.ctx.defs)])

\* the loop over doc.symbols, r = the outcome of the eager pass
G_rootSymbols(r) ==
  IF r.err # NoErr THEN r ELSE G_emitSymbols(r.ctx, 1, <<>>, <<>>)

generateGeminiSchema(doc) ==
  G_rootSchema(G_rootSymbols(G_ensureAll(EmitCtxGemini(doc), 1)))

\* ------------------------------------------------------------- TDL parser
\* Source text is modelled at token level: a scalar type expression is a
\* sequence of tokens (whitespace trimmed away, a quoted string one token);
\* a label is given split as the label regex splits it; a YAML value is
\* [y |-> "map", entries |-> <<[k, v], ...>>] or [y |-> "str", toks |-> <<...>>],
\* or a number or boolean [y |-> "num" / "bool", text |-> its JS rendering],
\* null [y |-> "null"], or a sequence [y |-> "seq", items |-> <<values>>].
POk(v) == [val |-> v, err |-> NoErr]
PFail(e) == [val |-> Undefined, err |-> e]

ErrEmptyExpr == "Empty type expression"
ErrUnsupported == "Unsupported or unrecognized type expression"
ErrFunction == "Function types are not supported"
ErrConditional == "Conditionals are not supported"
ErrQualified == "Qualified imports are not supported"
ErrGenerics == "Generics are not supported in this converter"
ErrEnumLike == "Enum-like expression must be literals or ALL_CAPS_TOKENs"
ErrLabel == "Invalid label"
ErrTypeValue == "Type must be a scalar type expression or an inline object"
ErrIndexLabel == "Invalid index signature label"

\* the tokens of the vocabulary each regular expression of the parser accepts
QuotedTokens == {"'a'", "'b'"}
NumberTokens == {"1", "2"}
PrimitiveWords == {"string", "number", "boolean", "typedoc", "image", "audio", "video", "never"}
TypeNameTokens == {"A", "B"}
AllCapsTokens == {"A", "B", "FOO_BAR"}
IdentifierTokens == PrimitiveWords \cup TypeNameTokens \cup AllCapsTokens \cup {"Ref", "Foo", "true", "false"}

\* s.slice(1, -1) of a quoted token
Unquote(tok) == IF tok = "'a'" THEN "a" ELSE "b"

NoLiteral == [t |-> "undefined", v |-> ""]

tryParseLiteral(tok) ==
  IF tok \in QuotedTokens THEN [t |-> "string", v |-> Unquote(tok)]
  ELSE IF tok = "true" THEN [t |-> "boolean", v |-> "true"]
  ELSE IF tok = "false" THEN [t |-> "boolean", v |-> "false"]
  ELSE IF tok \in NumberTokens THEN [t |-> "number", v |-> tok]
  ELSE NoLiteral

literalToNode(v) ==
  IF v.t = "string" THEN [kind |-> "string-literal", value |-> v.v]
  ELSE IF v.t = "number" THEN [kind |-> "number-literal", value |-> v.v]
  ELSE [kind |-> "boolean-literal", value |-> v.v]

RECURSIVE isBalancedFrom(_, _, _)
isBalancedFrom(s, i, d) ==
  IF i > Len(s) THEN d = 0
  ELSE LET d1 == IF s[i] = "(" THEN d + 1 ELSE IF s[i] = ")" THEN d - 1 ELSE d
       IN IF d1 < 0 THEN FALSE ELSE isBalancedFrom(s, i + 1, d1)

isBalancedParens(s) == isBalancedFrom(s, 1, 0)

RECURSIVE splitFrom(_, _, _, _, _, _, _)
splitFrom(s, sep, i, depthParen, depthAngle, cur, parts) ==
  IF i > Len(s) THEN (IF Len(cur) > 0 THEN Append(parts, cur) ELSE parts)
  ELSE LET ch == s[i]
           dp == IF ch = "(" THEN depthParen + 1 ELSE IF ch = ")" THEN depthParen - 1 ELSE depthParen
           da == IF ch = "<" THEN depthAngle + 1 ELSE IF ch = ">" THEN depthAngle - 1 ELSE depthAngle
       IN IF dp = 0 /\ da = 0 /\ ch = sep
            THEN splitFrom(s, sep, i + 1, dp, da, <<>>, Append(parts, cur))
            ELSE splitFrom(s, sep, i + 1, dp, da, Append(cur, ch), parts)

splitTopLevel(s, sep) == splitFrom(s, sep, 1, 0, 0, <<>>, <<>>)

RECURSIVE parseTypeExpr(_)
RECURSIVE parseMembers(_, _, _)

\* one step of parts.map(p => parseTypeExpr(p)), r = parseTypeExpr(parts[i])
parseMember(r, parts, i, acc) ==
  IF r.err # NoErr THEN r ELSE parseMembers(parts, i + 1, Append(acc, r.val))

\* mutant: an empty part is skipped instead of parsed
parseMembers_skipEmpty(parts, i, acc) ==
  IF i > Len(parts) THEN POk(acc)
  ELSE IF Len(parts[i]) = 0 THEN parseMembers(parts, i + 1, acc)
  ELSE parseMember(parseTypeExpr(parts[i]), parts, i, acc)

\* parts.map(p => parseTypeExpr(p)), from part i on
parseMembers(parts, i, acc) ==
  IF i > Len(parts) THEN POk(acc)
  ELSE parseMember(parseTypeExpr(parts[i]), parts, i, acc)

\* return { kind, members }, r = the parsed members
membersNode(kind, r) ==
  IF r.err # NoErr THEN r ELSE POk([kind |-> kind, members |-> r.val])

\* the scalar cases of parseTypeExpr: literals, primitives, type references,
\* ALL_CAPS tokens
parseScalar(expr) ==
  IF Len(expr) # 1 THEN PFail(ErrUnsupported)
  ELSE IF tryParseLiteral(expr[1]) # NoLiteral THEN POk(literalToNode(tryParseLiteral(expr[1])))
  ELSE IF expr[1] \in PrimitiveWords THEN POk([kind |-> "primitive", name |-> expr[1]])
  ELSE IF expr[1] \in TypeNameTokens THEN POk([kind |-> "type-ref", name |-> expr[1]])
  ELSE IF expr[1] \in AllCapsTokens THEN POk([kind |-> "string-literal", value |-> expr[1]])
  ELSE PFail(ErrUnsupported)

\* the union, intersection and parenthesis cases of parseTypeExpr
parseComposite(expr, unionParts, andParts) ==
  IF Len(unionParts) > 1 THEN membersNode("union", parseMembers(unionParts, 1, <<>>))
  ELSE IF Len(andParts) > 1 THEN membersNode("intersection", parseMembers(andParts, 1, <<>>))
  ELSE IF expr[1] = "(" /\ expr[Len(expr)] = ")" /\ isBalancedParens(expr)
    THEN parseTypeExpr(SubSeq(expr, 2, Len(expr) - 1))
  ELSE parseScalar(expr)

parseTypeExpr(expr) ==
  IF Len(expr) = 0 THEN PFail(ErrEmptyExpr)
  ELSE IF "=>" \in Range(expr) THEN PFail(ErrFunction)
  ELSE IF Range(expr) \cap {"if", "then", "else"} # {} THEN PFail(ErrConditional)
  ELSE IF "::" \in Range(expr) THEN PFail(ErrQualified)
  ELSE IF Len(expr) >= 3 /\ expr[1] \in IdentifierTokens /\ expr[2] = "<" /\ expr[Len(expr)] = ">"
    THEN IF expr[1] = "Ref" THEN POk([kind |-> "primitive", name |-> "string"])
         ELSE PFail(ErrGenerics)
  ELSE parseComposite(expr, splitTopLevel(expr, "|"), splitTopLevel(expr, "&"))

\* the loop of parseEnumLike over the non-empty parts, from part i on
RECURSIVE enumKeysFrom(_, _, _)
enumKeysFrom(parts, i, keys) ==
  IF i > Len(parts) THEN POk(keys)
  ELSE LET p == parts[i]
       IN IF Len(p) = 1 /\ tryParseLiteral(p[1]) # NoLiteral
            THEN enumKeysFrom(parts, i + 1, Append(keys, tryParseLiteral(p[1])))
          ELSE IF Len(p) = 1 /\ p[1] \in AllCapsTokens
            THEN enumKeysFrom(parts, i + 1, Append(keys, [t |-> "string", v |-> p[1]]))
          ELSE PFail(ErrEnumLike)

parseEnumLike(expr) ==
  enumKeysFrom(SelectSeq(splitTopLevel(expr, "|"), LAMBDA p : Len(p) > 0), 1, <<>>)

\* a label is [name, tail]: the two groups of /^([a-z][A-Za-z0-9_]*)(.*)$/;
\* name = "" stands for a label the expression does not match. The tails of
\* the vocabulary are "", "[]", "?", "?[]", "[]?" and the two tails "x" and
\* "?x" that are none of these; tail.includes("[]") and tail.includes("?")
\* are tabulated over them
TailHasArray(tail) == tail \in {"[]", "?[]", "[]?"}
TailHasOptional(tail) == tail \in {"?", "?[]", "[]?", "?x"}

parseLabel(label) ==
  IF label.name = "" THEN PFail(ErrLabel)
  ELSE POk([name |-> label.name, isArray |-> TailHasArray(label.tail),
            optional |-> TailHasOptional(label.tail)])

\* an index label is [ident, domain, tail]: the three groups of the index
\* label expression, domain as the tokens of the trimmed group (a blank
\* domain has none); ident = "" stands for no match
indexLabel(label, keys) ==
  IF keys.err # NoErr THEN keys
  ELSE POk([domain |-> "enum", keys |-> keys.val, optional |-> TailHasOptional(label.tail),
            isArray |-> TailHasArray(label.tail)])

parseIndexLabel(label) ==
  IF label.ident = "" THEN PFail(ErrIndexLabel)
  ELSE IF label.domain = <<"string">>
    THEN POk([domain |-> "string", keys |-> <<>>, optional |-> TailHasOptional(label.tail),
              isArray |-> TailHasArray(label.tail)])
  ELSE indexLabel(label, parseEnumLike(label.domain))

isObjectNode(v) == v.y = "map"

\* typeof v === "string"
isString(v) == v.y = "str"

\* String(v) of a YAML value that is not a mapping, as tokens: a number or a
\* boolean gives its text, null gives "null", a sequence gives its items'
\* strings joined by "," (a null item gives the empty string)
RECURSIVE String(_)
RECURSIVE joinFrom(_, _, _)
joinFrom(items, i, acc) ==
  IF i > Len(items) THEN acc
  ELSE joinFrom(items, i + 1,
                (IF i = 1 THEN acc ELSE Append(acc, ","))
                \o (IF items[i].y = "null" THEN <<>> ELSE String(items[i])))

String(v) ==
  CASE v.y = "str" -> v.toks
    [] v.y \in {"num", "bool"} -> <<v.text>>
    [] v.y = "null" -> <<"null">>
    [] v.y = "seq" -> joinFrom(v.items, 1, <<>>)
    [] v.y = "map" -> <<"[object Object]">>

isNever(t) == t.kind = "primitive" /\ t.name = "never"

RECURSIVE parseInlineObject(_)
RECURSIVE parseEntries(_, _, _, _, _)

\* isObjectNode(v) ? parseInlineObject(v) : parseTypeExpr(String(v))
parseValue(v) == IF isObjectNode(v) THEN parseInlineObject(v.entries) ELSE parseTypeExpr(String(v))

\* the value of a bare TypeName entry: it must be a mapping or a string
parseTypeValue(v) ==
  IF ~isObjectNode(v) /\ ~isString(v) THEN PFail(ErrTypeValue) ELSE parseValue(v)

\* mutant: the closure sugar is absorbed only the first time; a later
\* occurrence is kept as a string-domain signature
parseIndexEntry_once(l, vt, entries, i, props, indexSigs, closed) ==
  IF l.err # NoErr THEN l
  ELSE IF vt.err # NoErr THEN vt
  ELSE IF l.val.domain = "string" /\ l.val.optional /\ isNever(vt.val) /\ ~closed
    THEN parseEntries(entries, i + 1, props, indexSigs, TRUE)
  ELSE parseEntries(entries, i + 1, props,
         Append(indexSigs, [kind |-> IF l.val.domain = "string" THEN "string" ELSE "enum",
                            keys |-> l.val.keys, valueType |-> vt.val,
                            optional |-> l.val.optional, isArray |-> l.val.isArray]),
         closed)

\* an index entry: l = parseIndexLabel(k), vt = the parsed value type
parseIndexEntry(l, vt, entries, i, props, indexSigs, closed) ==
  IF l.err # NoErr THEN l
  ELSE IF vt.err # NoErr THEN vt
  ELSE IF l.val.domain = "string"
    THEN IF l.val.optional /\ isNever(vt.val)
           THEN parseEntries(entries, i + 1, props, indexSigs, TRUE)
           ELSE parseEntries(entries, i + 1, props,
                  Append(indexSigs, [kind |-> "string", keys |-> <<>>, valueType |-> vt.val,
                                     optional |-> l.val.optional, isArray |-> l.val.isArray]),
                  closed)
  ELSE parseEntries(entries, i + 1, props,
         Append(indexSigs, [kind |-> "enum", keys |-> l.val.keys, valueType |-> vt.val,
                            optional |-> l.val.optional, isArray |-> l.val.isArray]),
         closed)

\* a property entry: l = parseLabel(k), t = the parsed type
parsePropEntry(l, t, entries, i, props, indexSigs, closed) ==
  IF l.err # NoErr THEN l
  ELSE IF t.err # NoErr THEN t
  ELSE parseEntries(entries, i + 1,
         Append(props, [name |-> l.val.name, type |-> t.val,
                        optional |-> l.val.optional, isArray |-> l.val.isArray]),
         indexSigs, closed)

\* the loop of parseInlineObject over Object.entries(obj), from entry i on
parseEntries(entries, i, props, indexSigs, closed) ==
  IF i > Len(entries)
    THEN POk([kind |-> "object", props |-> props, indexSigs |-> indexSigs, closed |-> closed])
  ELSE IF entries[i].index
    THEN parseIndexEntry(parseIndexLabel(entries[i].k), parseValue(entries[i].v),
                         entries, i, props, indexSigs, closed)
  ELSE parsePropEntry(parseLabel(entries[i].k), parseValue(entries[i].v),
                      entries, i, props, indexSigs, closed)

parseInlineObject(entries) == parseEntries(entries, 1, <<>>, <<>>, FALSE)

\* ------------------------------------------------------- source documents
Str(toks) == [y |-> "str", toks |-> toks]
Mapping(entries) == [y |-> "map", entries |-> entries]
Num(text) == [y |-> "num", text |-> text]
Bool(text) == [y |-> "bool", text |-> text]
Null == [y |-> "null"]
List(items) == [y |-> "seq", items |-> items]
\* an index entry whose label does not match the index label expression
\* (no colon between the key variable and the domain)
BadIndex(v) == [index |-> TRUE, k |-> [ident |-> "", domain |-> <<>>, tail |-> ""], v |-> v]
Prop(name, tail, v) == [index |-> FALSE, k |-> [name |-> name, tail |-> tail], v |-> v]
Index(domain, tail, v) == [index |-> TRUE, k |-> [ident |-> "k", domain |-> domain, tail |-> tail], v |-> v]
\* an index entry whose label names its key variable j: a second signature
\* over the same domain needs a label text of its own to be a distinct key
IndexJ(domain, tail, v) == [index |-> TRUE, k |-> [ident |-> "j", domain |-> domain, tail |-> tail], v |-> v]

TypeNames == {"A", "B"}

\* an object body with the closure sugar, and the same body with the sugar
\* written twice
ClosedBody(r) ==
  Mapping(<<Prop("x", "?[]", Str(<<"number">>)),
            Prop("next", "", Str(<<r>>)),
            Index(<<"string">>, "?", Str(<<"never">>))>>)
TwiceClosedBody(r) ==
  Mapping(<<Index(<<"string">>, "?", Str(<<"never">>)),
            Prop("x", "?[]", Str(<<"number">>)),
            Prop("next", "", Str(<<r>>)),
            IndexJ(<<"string">>, "?[]", Str(<<"(", "never", ")">>))>>)

\* values of a bare TypeName entry; r is the type name the value mentions
TypeValues(r) ==
  { Mapping(<<Prop("x", "", Str(<<"string">>)),
              Prop("y", "?", Str(<<"number">>)),
              Index(<<"'a'", "|", "1">>, "?", Str(<<"number">>))>>),
    ClosedBody(r),
    TwiceClosedBody(r),
    Str(<<r>>),
    Str(<<r, "|", "'a'">>),
    Str(<<"A", "&", "B">>),
    Num("1"),
    Bool("true"),
    Null,
    List(<<Str(<<"string">>)>>) }

\* bodies of an extends-sugar entry TypeName(r)
ExtendsBodies ==
  { Mapping(<<Prop("x", "", Str(<<"boolean">>))>>) }

\* top-level symbol entries
SymbolEntries ==
  { [label |-> [name |-> "s", tail |-> ""], v |-> Str(<<"string">>)],
    [label |-> [name |-> "s", tail |-> "?"], v |-> Str(<<"A">>)],
    [label |-> [name |-> "t", tail |-> "[]"], v |-> Str(<<"'a'", "|", "'b'">>)],
    [label |-> [name |-> "t", tail |-> "?[]"], v |-> Str(<<"1", "|", "2">>)],
    [label |-> [name |-> "s", tail |-> ""], v |-> Str(<<"true", "|", "false">>)],
    [label |-> [name |-> "s", tail |-> ""], v |-> Str(<<"'a'", "|", "1">>)],
    [label |-> [name |-> "t", tail |-> ""], v |-> Str(<<"A", "|", "number">>)],
    [label |-> [name |-> "s", tail |-> ""], v |-> Str(<<"A", "&", "B">>)],
    [label |-> [name |-> "s", tail |-> ""],
     v |-> Mapping(<<Index(<<"string">>, "", Str(<<"number">>))>>)],
    [label |-> [name |-> "t", tail |-> ""],
     v |-> Mapping(<<Index(<<"string">>, "?[]", Str(<<"B">>)),
                     IndexJ(<<"string">>, "", Str(<<"string">>))>>)],
    [label |-> [name |-> "t", tail |-> ""],
     v |-> Mapping(<<Index(<<"string">>, "?", Str(<<"never">>)),
                     IndexJ(<<"string">>, "", Str(<<"number">>))>>)],
    [label |-> [name |-> "s", tail |-> ""],
     v |-> Mapping(<<Index(<<"'a'", "|", "1">>, "?", Str(<<"number">>)),
                     Prop("a", "", Str(<<"string">>))>>)],
    [label |-> [name |-> "t", tail |-> ""],
     v |-> Mapping(<<Index(<<"|">>, "", Str(<<"A">>))>>)],
    [label |-> [name |-> "s", tail |-> ""],
     v |-> Mapping(<<Prop("inner", "", Mapping(<<Prop("x", "", Str(<<"string">>)),
                                                 Index(<<"string">>, "?", Str(<<"never">>))>>)),
                     Prop("y", "?[]", Str(<<"B">>))>>)],
    [label |-> [name |-> "u", tail |-> "?"],
     v |-> Mapping(<<Prop("x", "", Str(<<"string">>)),
                     Prop("x", "?", Str(<<"number">>)),
                     Prop("z", "?", Str(<<"'a'", "|", "1">>)),
                     Prop("w", "?[]", Str(<<"A", "|", "number">>)),
                     Index(<<"'b'">>, "?[]", Str(<<"boolean">>))>>)],
    [label |-> [name |-> "t", tail |-> ""], v |-> Str(<<"FOO_BAR", "|", "'a'">>)],
    [label |-> [name |-> "s", tail |-> ""], v |-> Str(<<"Ref", "<", "A", ">">>)],
    [label |-> [name |-> "s", tail |-> ""], v |-> Str(<<"Ref", "<", "A", ">", "|", "Foo", "<", "B", ">">>)],
    [label |-> [name |-> "s", tail |-> ""], v |-> Str(<<"Foo", "<", "A", ">">>)],
    [label |-> [name |-> "s", tail |-> ""], v |-> Str(<<"string", "|", "Foo", "<", "A", ">">>)],
    [label |-> [name |-> "t", tail |-> ""], v |-> Str(<<"A", "|">>)],
    [label |-> [name |-> "t", tail |-> ""], v |-> Str(<<"A", "&">>)],
    [label |-> [name |-> "t", tail |-> ""], v |-> Str(<<"|", "A">>)],
    [label |-> [name |-> "s", tail |-> ""], v |-> Null],
    [label |-> [name |-> "s", tail |-> ""], v |-> List(<<Str(<<"string">>)>>)],
    [label |-> [name |-> "s", tail |-> ""],
     v |-> Mapping(<<Index(<<"string">>, "x", Str(<<"number">>))>>)],
    [label |-> [name |-> "t", tail |-> ""],
     v |-> Mapping(<<Index(<<"string">>, "?x", Str(<<"never">>)),
                     IndexJ(<<"string">>, "", Str(<<"number">>))>>)],
    [label |-> [name |-> "t", tail |-> ""],
     v |-> Mapping(<<BadIndex(Str(<<"number">>))>>)] }

\* ------------------------------------------------------------ state machine
VARIABLES
  types,      \* TDLDoc.types: Map from type name to TypeDef, in insertion order
  symbols,    \* TDLDoc.symbols
  pc,         \* "parse": parseTDL is in its loop; "ready": it returned the
              \* document; "failed": it threw
  parseErr,   \* the message parseTDL threw
  openai,     \* outcome of generateOpenAISchema(doc)
  gemini      \* outcome of generateGeminiSchema(doc)

vars == <<types, symbols, pc, parseErr, openai, gemini>>

NoResult == [status |-> "none"]
Outcome(r) ==
  IF r.err = NoErr THEN [status |-> "ok", schema |-> r.val]
  ELSE [status |-> "error", err |-> r.err]

doc == [types |-> types, symbols |-> symbols]

Init ==
  /\ types = <<>>
  /\ symbols = <<>>
  /\ pc = "parse"
  /\ parseErr = NoErr
  /\ openai = NoResult
  /\ gemini = NoResult

\* parseTDL, one top-level entry `Name: value`
ParseTypeEntry(name, v) ==
  /\ pc = "parse"
  /\ ~MapHas(types, name)
  /\ Len(types) < MaxTypes
  /\ LET node == parseTypeValue(v)
     IN IF node.err # NoErr
          THEN /\ pc' = "failed"
               /\ parseErr' = node.err
               /\ UNCHANGED types
          ELSE /\ types' = MapSet(types, name, [name |-> name, node |-> node.val])
               /\ UNCHANGED <<pc, parseErr>>
  /\ UNCHANGED <<symbols, openai, gemini>>

\* parseTDL, one top-level entry `Name(baseExpr): body`
ParseExtendsEntry(name, baseExpr, v) ==
  /\ pc = "parse"
  /\ ~MapHas(types, name)
  /\ Len(types) < MaxTypes
  /\ IF ~isObjectNode(v)
       THEN /\ pc' = "failed"
            /\ parseErr' = "extends sugar must have an object body"
            /\ UNCHANGED types
       ELSE LET base == parseTypeExpr(baseExpr)
                body == parseInlineObject(v.entries)
            IN IF base.err # NoErr \/ body.err # NoErr
                 THEN /\ pc' = "failed"
                      /\ parseErr' = (IF base.err # NoErr THEN base.err ELSE body.err)
                      /\ UNCHANGED types
                 ELSE /\ types' = MapSet(types, name,
                                    [name |-> name,
                                     node |-> [kind |-> "intersection",
                                               members |-> <<base.val, body.val>>]])
                      /\ UNCHANGED <<pc, parseErr>>
  /\ UNCHANGED <<symbols, openai, gemini>>

\* parseTDL, one top-level entry `label: value` with a symbol label
ParseSymbolEntry(e) ==
  /\ pc = "parse"
  /\ Len(symbols) < MaxSymbols
  /\ LET l == parseLabel(e.label)
         type == parseValue(e.v)
     IN IF l.err # NoErr \/ type.err # NoErr
          THEN /\ pc' = "failed"
               /\ parseErr' = (IF l.err # NoErr THEN l.err ELSE type.err)
               /\ UNCHANGED symbols
          ELSE /\ symbols' = Append(symbols, [name |-> l.val.name, type |-> type.val,
                                               optional |-> l.val.optional,
                                               isArray |-> l.val.isArray])
               /\ UNCHANGED <<pc, parseErr>>
  /\ UNCHANGED <<types, openai, gemini>>

\* parseTDL returns { types, symbols, meta }
ParseReturn ==
  /\ pc = "parse"
  /\ pc' = "ready"
  /\ UNCHANGED <<types, symbols, parseErr, openai, gemini>>

GenerateOpenAI ==
  /\ pc = "ready"
  /\ openai = NoResult
  /\ openai' = Outcome(generateOpenAISchema(doc))
  /\ UNCHANGED <<types, symbols, pc, parseErr, gemini>>

GenerateGemini ==
  /\ pc = "ready"
  /\ gemini = NoResult
  /\ gemini' = Outcome(generateGeminiSchema(doc))
  /\ UNCHANGED <<types, symbols, pc, parseErr, openai>>

Next ==
  \/ \E name \in TypeNames, r \in TypeNames : \E v \in TypeValues(r) : ParseTypeEntry(name, v)
  \/ \E name \in TypeNames, r \in TypeNames : \E v \in ExtendsBodies : ParseExtendsEntry(name, <<r>>, v)
  \/ \E e \in SymbolEntries : ParseSymbolEntry(e)
  \/ ParseReturn
  \/ GenerateOpenAI
  \/ GenerateGemini

Spec == Init /\ [][Next]_vars

\* --------------------------------------------- vocabulary of the properties
\* every schema occurring in a schema: itself, property schemas, array items,
\* anyOf members, a schema-valued additionalProperties and the $defs entries
RECURSIVE SubSchemas(_)
SubSchemas(s) ==
  {s}
  \cup (IF "properties" \in DOMAIN s
          THEN UNION {SubSchemas(s.properties[i].val) : i \in DOMAIN s.properties} ELSE {})
  \cup (IF "items" \in DOMAIN s THEN SubSchemas(s.items) ELSE {})
  \cup (IF "anyOf" \in DOMAIN s THEN UNION {SubSchemas(s.anyOf[i]) : i \in DOMAIN s.anyOf} ELSE {})
  \cup (IF "additionalProperties" \in DOMAIN s /\ "bool" \notin DOMAIN s.additionalProperties
          THEN SubSchemas(s.additionalProperties) ELSE {})
  \cup (IF "defs" \in DOMAIN s THEN UNION {SubSchemas(s.defs[i].val) : i \in DOMAIN s.defs} ELSE {})

IsObjectSchema(s) == "type" \in DOMAIN s /\ "object" \in Range(s.type)
ObjectSchemas(root) == {s \in SubSchemas(root) : IsObjectSchema(s)}
KeySet(m) == {m[i].key : i \in DOMAIN m}
NoDuplicates(seq) == \A i, j \in DOMAIN seq : seq[i] = seq[j] => i = j

\* every node occurring in a node
RECURSIVE SubNodes(_)
SubNodes(n) ==
  {n}
  \cup (IF n.kind \in {"union", "intersection"}
          THEN UNION {SubNodes(n.members[i]) : i \in DOMAIN n.members} ELSE {})
  \cup (IF n.kind = "object"
          THEN UNION {SubNodes(n.props[i].type) : i \in DOMAIN n.props}
               \cup UNION {SubNodes(n.indexSigs[i].valueType) : i \in DOMAIN n.indexSigs}
          ELSE {})

DocNodes ==
  UNION {SubNodes(types[i].val.node) : i \in DOMAIN types}
  \cup UNION {SubNodes(symbols[i].type) : i \in DOMAIN symbols}

DeclaredNames == KeySet(types)
RefNames(n) == {m.name : m \in {x \in SubNodes(n) : x.kind = "type-ref"}}

\* the declared names a declared type reaches through one or more references
RECURSIVE ReachFrom(_, _)
ReachFrom(frontier, seen) ==
  LET next == UNION {RefNames(MapGet(types, a).node) : a \in frontier \cap DeclaredNames}
  IN IF next \subseteq seen THEN seen ELSE ReachFrom(next \ seen, seen \cup next)

RecursiveNames == {a \in DeclaredNames : a \in ReachFrom({a}, {})}

OpenAIDone == openai.status # "none"
GeminiDone == gemini.status # "none"
OpenAIOk == openai.status = "ok"
GeminiOk == gemini.status = "ok"

\* ------------------------------------------------------------------ claims

\* C1: in every schema generateOpenAISchema returns, every object schema
\* (root, $defs entries, nested) has additionalProperties false and a
\* required array naming exactly the keys of its properties.
C1_OpenAIObjectsClosedAndAllRequired ==
  OpenAIOk =>
    \A s \in ObjectSchemas(openai.schema) :
      /\ s.additionalProperties = JsFalse
      /\ Range(s.required) = KeySet(s.properties)

C1_Witness ==
  /\ OpenAIOk
  /\ RecursiveNames # {}
  /\ \E s \in ObjectSchemas(openai.schema) :
       /\ s # openai.schema
       /\ Len(s.properties) >= 3
       /\ \E i \in DOMAIN s.properties :
            /\ "type" \in DOMAIN s.properties[i].val
            /\ "null" \in Range(s.properties[i].val.type)

\* C4: a successful emitter run leaves exactly one $defs entry per declared
\* type name and no other entry.
C4_DefsKeysAreDeclaredNames ==
  /\ OpenAIOk => /\ KeySet(openai.schema.defs) = DeclaredNames
                 /\ NoDuplicates(MapKeys(openai.schema.defs))
  /\ GeminiOk => /\ KeySet(gemini.schema.defs) = DeclaredNames
                 /\ NoDuplicates(MapKeys(gemini.schema.defs))

C4_Witness ==
  /\ OpenAIOk
  /\ GeminiOk
  /\ Len(types) = 2
  /\ \E a \in DeclaredNames :
       a \notin UNION {RefNames(n) : n \in DocNodes}


\* the objects a complete walk of node n hands to emitObject: inline objects
\* and the results of intersection merges, below property types, union
\* members and the value types of index signatures that have a key to emit
RECURSIVE WalkObjects(_)
WalkObjects(n) ==
  IF n.kind = "object"
    THEN {n}
         \cup UNION {WalkObjects(n.props[i].type) : i \in DOMAIN n.props}
         \cup UNION {WalkObjects(n.indexSigs[i].valueType) :
                       i \in {j \in DOMAIN n.indexSigs :
                                n.indexSigs[j].kind = "string" \/ Len(n.indexSigs[j].keys) > 0}}
  ELSE IF n.kind = "union"
    THEN IF \A i \in DOMAIN n.members : isScalarLiteral(n.members[i]) THEN {}
         ELSE UNION {WalkObjects(n.members[i]) : i \in DOMAIN n.members}
  ELSE IF n.kind = "intersection"
    THEN LET m == G_mergeObjects(EmitCtxGemini(doc), n.members, 1)
         IN IF m.err # NoErr THEN {} ELSE WalkObjects(m.val)
  ELSE {}

EmittedObjects ==
  UNION {WalkObjects(types[i].val.node) : i \in DOMAIN types}
  \cup UNION {WalkObjects(symbols[i].type) : i \in DOMAIN symbols}

\* the member names of an object that a declaration with optional = FALSE gives
NonOptionalNames(o) ==
  {o.props[i].name : i \in {j \in DOMAIN o.props : ~o.props[j].optional}}
  \cup UNION {{KeyName(o.indexSigs[i].keys[k]) : k \in DOMAIN o.indexSigs[i].keys} :
                i \in {j \in DOMAIN o.indexSigs :
                         o.indexSigs[j].kind = "enum" /\ ~o.indexSigs[j].optional}}

\* C2: in every schema generateGeminiSchema returns, required is a subset of
\* the property keys of each object schema, and the name of every symbol,
\* property and enum-domain key declared without `?` is in the required
\* array of the object schema emitted for its object.
C2_GeminiRequired ==
  GeminiOk =>
    /\ \A s \in ObjectSchemas(gemini.schema) : Range(s.required) \subseteq KeySet(s.properties)
    /\ {symbols[i].name : i \in {j \in DOMAIN symbols : ~symbols[j].optional}}
         \subseteq Range(gemini.schema.required)
    /\ \A o \in EmittedObjects :
         LET r == G_emitObject(EmitCtxGemini(doc), o)
         IN /\ r.err = NoErr
            /\ NonOptionalNames(o) \subseteq Range(r.val.required)
            /\ Range(r.val.required) \subseteq KeySet(r.val.properties)

C2_Witness ==
  /\ GeminiOk
  /\ \E o \in EmittedObjects :
       /\ NonOptionalNames(o) # {}
       /\ \E i \in DOMAIN o.props : o.props[i].optional
       /\ G_emitObject(EmitCtxGemini(doc), o).val \in ObjectSchemas(gemini.schema)

\* C3: (fails) for a document with a type that refers to itself, directly or
\* through other types, neither emitter exhausts the call stack, and a
\* successful run has a $defs entry for every such type.
C3_CycleSafety ==
  RecursiveNames # {} =>
    /\ OpenAIDone => /\ ~(openai.status = "error" /\ openai.err = ErrRange)
                     /\ OpenAIOk => RecursiveNames \subseteq KeySet(openai.schema.defs)
    /\ GeminiDone => /\ ~(gemini.status = "error" /\ gemini.err = ErrRange)
                     /\ GeminiOk => RecursiveNames \subseteq KeySet(gemini.schema.defs)

\* the names of a sequence of records in order of first occurrence
RECURSIVE FirstOccurrences(_, _, _)
FirstOccurrences(seq, i, acc) ==
  IF i > Len(seq) THEN acc
  ELSE FirstOccurrences(seq, i + 1,
         IF seq[i].name \in Range(acc) THEN acc ELSE Append(acc, seq[i].name))

\* C5: (fails) in both schemas the $defs entries are in the declaration order
\* of the types and the root properties in the declaration order of the
\* symbols.
C5_DeclarationOrder ==
  /\ OpenAIOk => /\ MapKeys(openai.schema.defs) = MapKeys(types)
                 /\ MapKeys(openai.schema.properties) = FirstOccurrences(symbols, 1, <<>>)
  /\ GeminiOk => /\ MapKeys(gemini.schema.defs) = MapKeys(types)
                 /\ MapKeys(gemini.schema.properties) = FirstOccurrences(symbols, 1, <<>>)


StringSigs(o) == {i \in DOMAIN o.indexSigs : o.indexSigs[i].kind = "string"}
LastStringSig(o) == o.indexSigs[CHOOSE i \in StringSigs(o) : \A j \in StringSigs(o) : j <= i]

\* C6 as stated: (fails) an emitted object with a string-domain index
\* signature makes generateOpenAISchema fail with the string-index error,
\* and Gemini emits additionalProperties equal to the value schema of the
\* signature.
C6_StringMapAsStated ==
  \A o \in EmittedObjects :
    StringSigs(o) # {} =>
      /\ OpenAIDone => (openai.status = "error" /\ openai.err = ErrStringIndex)
      /\ GeminiOk =>
           \A i \in StringSigs(o) :
             G_emitObject(EmitCtxGemini(doc), o).val.additionalProperties
               = G_emit(EmitCtxGemini(doc), o.indexSigs[i].valueType).val

\* C6 amended: an emitted object with a string-domain index signature makes
\* generateOpenAISchema throw (the string-index error or an error met before
\* it); a successful Gemini run emits for that object additionalProperties
\* equal to the value schema of its last string-domain signature, wrapped as
\* an array schema when that signature is an array.
C6_StringMap ==
  \A o \in EmittedObjects :
    StringSigs(o) # {} =>
      /\ OpenAIDone => openai.status = "error"
      /\ GeminiOk =>
           LET sig == LastStringSig(o)
               value == G_emit(EmitCtxGemini(doc), sig.valueType).val
           IN G_emitObject(EmitCtxGemini(doc), o).val.additionalProperties
                = IF sig.isArray THEN [type |-> <<"array">>, items |-> value] ELSE value

C6_Witness ==
  /\ OpenAIDone
  /\ openai.status = "error"
  /\ openai.err = ErrStringIndex
  /\ GeminiOk
  /\ \E o \in EmittedObjects :
       /\ Cardinality(StringSigs(o)) = 2
       /\ \E i \in StringSigs(o) : o.indexSigs[i].isArray /\ o.indexSigs[i].optional

AllRefNames == UNION {RefNames(n) : n \in DocNodes}

\* C7: (fails) a document with a type reference to an undeclared name makes
\* both emitters fail, and no emitted $ref names an undeclared type.
C7_UnresolvedRefsFail ==
  /\ AllRefNames \ DeclaredNames # {} =>
       /\ OpenAIDone => openai.status = "error"
       /\ GeminiDone => gemini.status = "error"
  /\ OpenAIOk => \A s \in SubSchemas(openai.schema) :
                   "ref" \in DOMAIN s => s.ref[3] \in DeclaredNames
  /\ GeminiOk => \A s \in SubSchemas(gemini.schema) :
                   "ref" \in DOMAIN s => s.ref[3] \in DeclaredNames

\* the JSON type of a literal node
JsonType(n) ==
  CASE n.kind = "string-literal" -> "string"
    [] n.kind = "number-literal" -> "number"
    [] n.kind = "boolean-literal" -> "boolean"
    [] OTHER -> "none"

IsLiteralUnion(n) ==
  n.kind = "union" /\ \A i \in DOMAIN n.members : JsonType(n.members[i]) # "none"
IsHomogeneousLiteralUnion(n) ==
  IsLiteralUnion(n) /\ \A i \in DOMAIN n.members : JsonType(n.members[i]) = JsonType(n.members[1])
EnumValues(n) == [i \in DOMAIN n.members |-> [t |-> JsonType(n.members[i]), v |-> n.members[i].value]]

\* C8: a union whose members are all literals of one JSON type t is emitted
\* by both emitters as {type: t, enum: [v1..vn]}, values in member order.
C8_LiteralEnumCompression ==
  \A u \in DocNodes :
    IsHomogeneousLiteralUnion(u) =>
      LET expected == [type |-> <<JsonType(u.members[1])>>, enum |-> EnumValues(u)]
          o == O_emit(EmitCtxOpenAI(doc), u)
          g == G_emit(EmitCtxGemini(doc), u)
      IN /\ o.err = NoErr /\ o.val = expected
         /\ g.err = NoErr /\ g.val = expected

C8_Witness ==
  /\ OpenAIOk
  /\ GeminiOk
  /\ \E i \in DOMAIN symbols :
       /\ IsHomogeneousLiteralUnion(symbols[i].type)
       /\ JsonType(symbols[i].type.members[1]) = "number"
       /\ MapGet(gemini.schema.properties, symbols[i].name).items
            = [type |-> <<"number">>, enum |-> EnumValues(symbols[i].type)]

\* the schema of a node that has no parts
LeafSchema(n) ==
  CASE n.kind = "primitive" /\ n.name = "number" -> [type |-> <<"number">>]
    [] n.kind = "primitive" /\ n.name = "boolean" -> [type |-> <<"boolean">>]
    [] n.kind = "primitive" /\ n.name = "never" -> [type |-> <<"number">>, minimum |-> 1, maximum |-> 0]
    [] n.kind = "primitive" -> [type |-> <<"string">>]
    [] n.kind = "type-ref" -> [ref |-> <<"#", "$defs", n.name>>]
    [] OTHER -> [type |-> <<JsonType(n)>>, enum |-> <<[t |-> JsonType(n), v |-> n.value]>>]

IsLeaf(n) == n.kind \notin {"union", "intersection", "object"}

\* C9 as stated: (fails) every union that is not a union of literals of one
\* JSON type is emitted as {anyOf: [...]}, one schema per member in order.
C9_OtherUnionsAreAnyOf ==
  \A u \in DocNodes :
    (u.kind = "union" /\ ~IsHomogeneousLiteralUnion(u)) =>
      LET o == O_emit(EmitCtxOpenAI(doc), u)
          g == G_emit(EmitCtxGemini(doc), u)
      IN /\ o.err = NoErr =>
              /\ DOMAIN o.val = {"anyOf"}
              /\ Len(o.val.anyOf) = Len(u.members)
         /\ g.err = NoErr =>
              /\ DOMAIN g.val = {"anyOf"}
              /\ Len(g.val.anyOf) = Len(u.members)

\* C9 amended: a union with a member that is not a literal is emitted, when
\* its members emit, as {anyOf: [...]} with one schema per member in order; a
\* union of literals of more than one JSON type is emitted as
\* {enum: [v1..vn]} with no type.
C9_UnionLowering ==
  \A u \in DocNodes :
    /\ (u.kind = "union" /\ ~IsLiteralUnion(u)) =>
         LET o == O_emit(EmitCtxOpenAI(doc), u)
             g == G_emit(EmitCtxGemini(doc), u)
         IN /\ o.err = NoErr =>
                 /\ DOMAIN o.val = {"anyOf"}
                 /\ Len(o.val.anyOf) = Len(u.members)
                 /\ \A i \in DOMAIN u.members :
                      IsLeaf(u.members[i]) => o.val.anyOf[i] = LeafSchema(u.members[i])
            /\ g.err = NoErr =>
                 /\ DOMAIN g.val = {"anyOf"}
                 /\ Len(g.val.anyOf) = Len(u.members)
                 /\ \A i \in DOMAIN u.members :
                      IsLeaf(u.members[i]) => g.val.anyOf[i] = LeafSchema(u.members[i])
    /\ (IsLiteralUnion(u) /\ ~IsHomogeneousLiteralUnion(u)) =>
         /\ O_emit(EmitCtxOpenAI(doc), u).val = [enum |-> EnumValues(u)]
         /\ G_emit(EmitCtxGemini(doc), u).val = [enum |-> EnumValues(u)]

C9_Witness ==
  /\ OpenAIOk
  /\ GeminiOk
  /\ \E u \in DocNodes : u.kind = "union" /\ ~IsLiteralUnion(u)
  /\ \E i \in DOMAIN symbols :
       /\ IsLiteralUnion(symbols[i].type)
       /\ ~IsHomogeneousLiteralUnion(symbols[i].type)
       /\ MapGet(openai.schema.properties, symbols[i].name) = [enum |-> EnumValues(symbols[i].type)]


\* the inline objects an intersection operand stands for, left to right:
\* an object is itself, a reference is the operands of its type's body, an
\* intersection is the operands of its members
RECURSIVE Operands(_)
RECURSIVE OperandsOfAll(_, _)
OperandsOfAll(members, i) ==
  IF i > Len(members) THEN <<>> ELSE Operands(members[i]) \o OperandsOfAll(members, i + 1)
Operands(n) ==
  IF n.kind = "object" THEN <<n>>
  ELSE IF n.kind = "type-ref" THEN Operands(MapGet(types, n.name).node)
  ELSE OperandsOfAll(n.members, 1)

RECURSIVE ConcatProps(_, _)
ConcatProps(objs, i) ==
  IF i > Len(objs) THEN <<>> ELSE objs[i].props \o ConcatProps(objs, i + 1)
RECURSIVE ConcatIndexSigs(_, _)
ConcatIndexSigs(objs, i) ==
  IF i > Len(objs) THEN <<>> ELSE objs[i].indexSigs \o ConcatIndexSigs(objs, i + 1)

RightmostWins(m, n) ==
  LET objs == OperandsOfAll(n.members, 1)
      all == ConcatProps(objs, 1)
  IN /\ NoDuplicates([i \in DOMAIN m.props |-> m.props[i].name])
     /\ {m.props[i].name : i \in DOMAIN m.props} = {all[i].name : i \in DOMAIN all}
     /\ \A i \in DOMAIN m.props :
          \E j \in DOMAIN all :
            /\ m.props[i] = all[j]
            /\ \A k \in DOMAIN all : all[k].name = all[j].name => k <= j
     /\ m.indexSigs = ConcatIndexSigs(objs, 1)
     /\ m.closed = (\E i \in DOMAIN objs : objs[i].closed)

\* C10: when the operands of an intersection resolve, the merged object has
\* one property per distinct name, the one the rightmost operand declaring
\* the name gives; its index signatures are the operands' index signatures
\* in operand order; it is closed iff some operand is closed.
C10_IntersectionRightmostWins ==
  \A n \in DocNodes :
    n.kind = "intersection" =>
      LET o == O_mergeObjects(EmitCtxOpenAI(doc), n.members, 1)
          g == G_mergeObjects(EmitCtxGemini(doc), n.members, 1)
      IN /\ o.err = NoErr => RightmostWins(o.val, n)
         /\ g.err = NoErr => RightmostWins(g.val, n)

C10_Witness ==
  /\ OpenAIOk
  /\ GeminiOk
  /\ \E i \in DOMAIN symbols :
       /\ symbols[i].type.kind = "intersection"
       /\ LET objs == OperandsOfAll(symbols[i].type.members, 1)
              m == O_mergeObjects(EmitCtxOpenAI(doc), symbols[i].type.members, 1).val
          IN /\ Len(objs) >= 2
             /\ \E a, b \in DOMAIN objs :
                  /\ a < b
                  /\ \E p \in DOMAIN objs[a].props, q \in DOMAIN objs[b].props :
                       /\ objs[a].props[p].name = objs[b].props[q].name
                       /\ objs[a].props[p] # objs[b].props[q]
             /\ \E c \in DOMAIN objs : objs[c].closed
             /\ \E c \in DOMAIN objs : ~objs[c].closed
             /\ Len(m.indexSigs) >= 1


\* C11: a step of parseTDL that reads a type whose body has the closure
\* sugar twice is a step that reads the body with the sugar once: both
\* leave the same Object node (closed, no string-domain signature), so both
\* emitters see the same document.
C11_ClosureSugarIdempotent ==
  [][\A name \in TypeNames, r \in TypeNames :
       /\ ParseTypeEntry(name, TwiceClosedBody(r)) <=> ParseTypeEntry(name, ClosedBody(r))
       /\ ParseTypeEntry(name, TwiceClosedBody(r)) =>
            /\ pc' = "parse"
            /\ MapGet(types', name).node.closed
            /\ StringSigs(MapGet(types', name).node) = {}]_vars

C11_Witness ==
  /\ OpenAIOk
  /\ GeminiOk
  /\ \E i \in DOMAIN types, r \in TypeNames :
       /\ types[i].val.node = parseValue(TwiceClosedBody(r)).val
       /\ MapGet(gemini.schema.defs, types[i].key).additionalProperties = JsFalse
       /\ MapGet(openai.schema.defs, types[i].key).additionalProperties = JsFalse
       /\ Len(MapGet(gemini.schema.defs, types[i].key).properties) = 2

\* C12: (fails) in a successful Gemini run every emitted object with
\* closed = TRUE has additionalProperties false, and every emitted object
\* with closed = FALSE and no string-domain signature has
\* additionalProperties true.
C12_GeminiOpenness ==
  GeminiOk =>
    \A o \in EmittedObjects :
      /\ o.closed =>
           G_emitObject(EmitCtxGemini(doc), o).val.additionalProperties = JsFalse
      /\ (~o.closed /\ StringSigs(o) = {}) =>
           G_emitObject(EmitCtxGemini(doc), o).val.additionalProperties = JsTrue

\* the declaration of a name that takes effect is its last one
IsLastNamed(seq, i) == \A j \in DOMAIN seq : seq[j].name = seq[i].name => j <= i
PropNames(o) == {o.props[i].name : i \in DOMAIN o.props}

\* the enum-domain keys of an object as declarations, in signature and key order
RECURSIVE KeyDecls(_, _)
KeyDecls(sigs, i) ==
  IF i > Len(sigs) THEN <<>>
  ELSE (IF sigs[i].kind = "enum"
          THEN [k \in DOMAIN sigs[i].keys |->
                  [name |-> KeyName(sigs[i].keys[k]), type |-> sigs[i].valueType,
                   optional |-> sigs[i].optional, isArray |-> sigs[i].isArray]]
          ELSE <<>>) \o KeyDecls(sigs, i + 1)

\* the object with every member declared without `?`
AllRequired(o) ==
  [o EXCEPT !.props = [i \in DOMAIN o.props |-> [o.props[i] EXCEPT !.optional = FALSE]],
            !.indexSigs = [i \in DOMAIN o.indexSigs |->
                             IF o.indexSigs[i].kind = "enum"
                               THEN [o.indexSigs[i] EXCEPT !.optional = FALSE]
                               ELSE o.indexSigs[i]]]

\* C13: (fails) in a successful Gemini run, a symbol, property or
\* enum-domain key whose effective declaration is optional is not in the
\* required array of its object, and every property schema is the one the
\* object would get with all its members declared without `?`.
C13_GeminiOptionalByOmission ==
  GeminiOk =>
    /\ \A i \in DOMAIN symbols :
         (IsLastNamed(symbols, i) /\ symbols[i].optional) =>
           symbols[i].name \notin Range(gemini.schema.required)
    /\ \A o \in EmittedObjects :
         /\ \A i \in DOMAIN o.props :
              (IsLastNamed(o.props, i) /\ o.props[i].optional) =>
                o.props[i].name \notin Range(G_emitObject(EmitCtxGemini(doc), o).val.required)
         /\ \A i \in DOMAIN KeyDecls(o.indexSigs, 1) :
              ( /\ IsLastNamed(KeyDecls(o.indexSigs, 1), i)
                /\ KeyDecls(o.indexSigs, 1)[i].optional
                /\ KeyDecls(o.indexSigs, 1)[i].name \notin PropNames(o) ) =>
                KeyDecls(o.indexSigs, 1)[i].name
                  \notin Range(G_emitObject(EmitCtxGemini(doc), o).val.required)
         /\ G_emitObject(EmitCtxGemini(doc), o).val.properties
              = G_emitObject(EmitCtxGemini(doc), AllRequired(o)).val.properties

\* the nullable form of a schema: a schema with a string type t gets the
\* type [t, "null"], a schema without a type is wrapped in anyOf
NullableForm(S) ==
  IF "type" \in DOMAIN S THEN [S EXCEPT !.type = <<S.type[1], "null">>]
  ELSE [anyOf |-> <<S, [type |-> <<"null">>]>>]

HasStringTypeOrNone(S) == "type" \in DOMAIN S => Len(S.type) = 1

\* the schema of declaration d given the schema E of its type
ExpectedOpenAI(d, E) ==
  IF d.optional
    THEN NullableForm(IF d.isArray THEN [type |-> <<"array">>, items |-> E] ELSE E)
    ELSE IF d.isArray THEN [type |-> <<"array">>, items |-> E] ELSE E

\* the declarations of seq that take effect have, in properties, the schema
\* the claim gives them
NullableAsStated(properties, seq, hidden) ==
  \A i \in DOMAIN seq :
    (IsLastNamed(seq, i) /\ seq[i].name \notin hidden) =>
      /\ HasStringTypeOrNone(O_emit(EmitCtxOpenAI(doc), seq[i].type).val)
      /\ MapGet(properties, seq[i].name)
           = ExpectedOpenAI(seq[i], O_emit(EmitCtxOpenAI(doc), seq[i].type).val)

\* C14: in a successful OpenAI run the schema of every optional symbol,
\* property and enum-domain key is the nullable form of its (array-wrapped)
\* schema: type [t, "null"] when the schema has a type t, an anyOf with
\* {type: "null"} when it has none; a non-optional member has its
\* (array-wrapped) schema unchanged.
C14_OpenAINullable ==
  OpenAIOk =>
    /\ NullableAsStated(openai.schema.properties, symbols, {})
    /\ \A o \in EmittedObjects :
         /\ NullableAsStated(O_emitObject(EmitCtxOpenAI(doc), o).val.properties, o.props, {})
         /\ NullableAsStated(O_emitObject(EmitCtxOpenAI(doc), o).val.properties,
                             KeyDecls(o.indexSigs, 1), PropNames(o))

C14_Witness ==
  /\ OpenAIOk
  /\ \E i \in DOMAIN symbols :
       /\ symbols[i].optional
       /\ symbols[i].type.kind = "object"
       /\ MapGet(openai.schema.properties, symbols[i].name).type = <<"object", "null">>
       /\ \E s \in SubSchemas(MapGet(openai.schema.properties, symbols[i].name)) :
            /\ "anyOf" \in DOMAIN s
            /\ s.anyOf[2] = [type |-> <<"null">>]
            /\ "enum" \in DOMAIN s.anyOf[1]
       /\ \E s \in SubSchemas(MapGet(openai.schema.properties, symbols[i].name)) :
            /\ "type" \in DOMAIN s
            /\ s.type = <<"array", "null">>
            /\ "anyOf" \in DOMAIN s.items

\* a generic usage Name<...> with Name other than Ref occurs in the tokens
HasForeignGeneric(toks) ==
  \E i \in DOMAIN toks :
    /\ i < Len(toks)
    /\ toks[i] \in IdentifierTokens \ {"Ref"}
    /\ toks[i + 1] = "<"

\* the tokens are one Ref<...>
IsRefGeneric(toks) ==
  /\ Len(toks) >= 3
  /\ toks[1] = "Ref"
  /\ toks[2] = "<"
  /\ toks[Len(toks)] = ">"
  /\ \A i \in 3..(Len(toks) - 1) : toks[i] \notin {"<", ">", "|", "&"}

\* C15: (fails) a step of parseTDL that reads a symbol whose scalar type
\* expression has a generic usage other than Ref<...> ends in an error, and
\* one that reads a lone Ref<...> gives the symbol the type Primitive(string).
C15_GenericsRejected ==
  [][\A e \in SymbolEntries :
       (ParseSymbolEntry(e) /\ ~isObjectNode(e.v)) =>
         /\ HasForeignGeneric(String(e.v)) => (pc' = "failed" /\ parseErr' # NoErr)
         /\ IsRefGeneric(String(e.v)) =>
              /\ pc' = "parse"
              /\ symbols'[Len(symbols')].type = [kind |-> "primitive", name |-> "string"]]_vars

\* a union or intersection operator of the tokens has nothing on one side
HasEmptyOperand(toks) ==
  /\ Len(toks) >= 1
  /\ \/ toks[1] \in {"|", "&"}
     \/ toks[Len(toks)] \in {"|", "&"}
     \/ \E i \in 1..(Len(toks) - 1) : toks[i] \in {"|", "&"} /\ toks[i + 1] \in {"|", "&"}

\* C16: after every step, each Union and Intersection node of the document
\* (from parseTypeExpr and from the extends sugar) has at least 2 members,
\* and a step of parseTDL that reads a scalar expression with an empty
\* operand ends in an error.
C16_AtLeastTwoMembers ==
  [][/\ <<types, symbols>>' # <<types, symbols>> =>
          \A n \in DocNodes' :
            n.kind \in {"union", "intersection"} => Len(n.members) >= 2
     /\ \A e \in SymbolEntries :
          (~isObjectNode(e.v) /\ HasEmptyOperand(String(e.v)) /\ ParseSymbolEntry(e)) =>
            (pc' = "failed" /\ symbols' = symbols)]_vars

C16_Witness ==
  /\ pc = "failed"
  /\ parseErr = ErrEmptyExpr
  /\ \E i \in DOMAIN types :
       /\ types[i].val.node.kind = "intersection"
       /\ Len(types[i].val.node.members) = 2
       /\ types[i].val.node.members[2].kind = "object"
  /\ \E n \in DocNodes : n.kind = "union"

PropNameSeq(o) == [i \in DOMAIN o.props |-> o.props[i].name]

\* C17: (fails) the property names of every Object node of the document and
\* of every object mergeObjects returns are pairwise distinct.
C17_PropertyNamesUnique ==
  \A n \in DocNodes :
    /\ n.kind = "object" => NoDuplicates(PropNameSeq(n))
    /\ (n.kind = "intersection" /\ O_mergeObjects(EmitCtxOpenAI(doc), n.members, 1).err = NoErr) =>
         NoDuplicates(PropNameSeq(O_mergeObjects(EmitCtxOpenAI(doc), n.members, 1).val))
    /\ (n.kind = "intersection" /\ G_mergeObjects(EmitCtxGemini(doc), n.members, 1).err = NoErr) =>
         NoDuplicates(PropNameSeq(G_mergeObjects(EmitCtxGemini(doc), n.members, 1).val))

\* C18: (fails) every enum-kind index signature of the document has at
\* least one key, and its keys are literals of one kind.
C18_EnumKeysNonEmptyHomogeneous ==
  \A n \in DocNodes :
    n.kind = "object" =>
      \A i \in DOMAIN n.indexSigs :
        n.indexSigs[i].kind = "enum" =>
          /\ Len(n.indexSigs[i].keys) >= 1
          /\ \A a, b \in DOMAIN n.indexSigs[i].keys :
               n.indexSigs[i].keys[a].t = n.indexSigs[i].keys[b].t

\* the members a source object body declares, in the order of its entries:
\* a property entry declares its name, an enum-domain index entry declares
\* its keys in domain order, a string-domain index entry declares none
RECURSIVE DeclaredMembers(_, _)
DeclaredMembers(entries, i) ==
  IF i > Len(entries) THEN <<>>
  ELSE (IF ~entries[i].index THEN <<[name |-> entries[i].k.name]>>
        ELSE IF entries[i].k.domain = <<"string">> THEN <<>>
        ELSE [k \in DOMAIN parseEnumLike(entries[i].k.domain).val |->
                [name |-> KeyName(parseEnumLike(entries[i].k.domain).val[k])]])
       \o DeclaredMembers(entries, i + 1)

\* the keys of properties are the declared names in declaration order, and
\* the names of required are in declaration order
OrderAsDeclared(schema, entries) ==
  /\ MapKeys(schema.properties) = FirstOccurrences(DeclaredMembers(entries, 1), 1, <<>>)
  /\ FirstOccurrences([i \in DOMAIN schema.required |-> [name |-> schema.required[i]]], 1, <<>>)
       = FirstOccurrences(SelectSeq(DeclaredMembers(entries, 1),
                                    LAMBDA d : d.name \in Range(schema.required)), 1, <<>>)

\* the object bodies of the model's type entries that parse to node
BodiesOf(node) ==
  {v \in UNION {TypeValues(r) : r \in TypeNames} :
     isObjectNode(v) /\ parseValue(v) = POk(node)}

\* C19: (fails) in a successful run of either emitter the schema of each
\* type declared with an object body has its properties keys and its
\* required names in the declaration order of the body's members, and the
\* root has them in the declaration order of the symbols.
C19_MemberOrderAsDeclared ==
  /\ OpenAIOk =>
       /\ MapKeys(openai.schema.properties) = FirstOccurrences(symbols, 1, <<>>)
       /\ openai.schema.required = [i \in DOMAIN symbols |-> symbols[i].name]
       /\ \A i \in DOMAIN types : \A v \in BodiesOf(types[i].val.node) :
            OrderAsDeclared(MapGet(openai.schema.defs, types[i].key), v.entries)
  /\ GeminiOk =>
       /\ MapKeys(gemini.schema.properties) = FirstOccurrences(symbols, 1, <<>>)
       /\ \A i \in DOMAIN types : \A v \in BodiesOf(types[i].val.node) :
            OrderAsDeclared(MapGet(gemini.schema.defs, types[i].key), v.entries)

\* token k of a scalar expression is the whole expression or a union member
IsUnionAtom(toks, k) ==
  /\ (k = 1 \/ toks[k - 1] = "|")
  /\ (k = Len(toks) \/ toks[k + 1] = "|")

\* C20: (fails) a step of parseTDL that reads a symbol whose scalar
\* expression has an ALL_CAPS token as its atom or as a union member
\* succeeds and gives the symbol a type in which that token is a
\* StringLiteral with the token as value.
C20_AllCapsIsStringLiteral ==
  [][\A e \in SymbolEntries :
       (ParseSymbolEntry(e) /\ ~isObjectNode(e.v)) =>
         \A k \in DOMAIN String(e.v) :
           (String(e.v)[k] \in AllCapsTokens /\ IsUnionAtom(String(e.v), k)
              /\ ~HasEmptyOperand(String(e.v))) =>
             /\ pc' = "parse"
             /\ [kind |-> "string-literal", value |-> String(e.v)[k]]
                  \in SubNodes(symbols'[Len(symbols')].type)]_vars

\* C21: parseTDL treats the value of a top-level symbol exactly as it treats
\* the value of a top-level type definition: a symbol entry with value v is
\* accepted iff a type-definition entry with value v is accepted, and when
\* accepted both yield the same TypeNode. Stated of every step of parseTDL:
\* a symbol step accepts its value iff the type branch's treatment of the
\* same value succeeds, with the same node, and conversely for a type step.
C21_SymbolValueAsTypeValue ==
  [][/\ \A e \in SymbolEntries :
          (ParseSymbolEntry(e) /\ parseLabel(e.label).err = NoErr) =>
            /\ (pc' # "failed") <=> (parseTypeValue(e.v).err = NoErr)
            /\ (pc' # "failed") =>
                 symbols'[Len(symbols')].type = parseTypeValue(e.v).val
     /\ \A name \in TypeNames, r \in TypeNames : \A v \in TypeValues(r) :
          ParseTypeEntry(name, v) =>
            /\ (pc' # "failed") <=> (parseValue(v).err = NoErr)
            /\ (pc' # "failed") => MapGet(types', name).node = parseValue(v).val]_vars

\* the tails an index-signature label may have
ValidIndexTails == {"", "[]", "?", "?[]", "[]?"}

\* the index entries of a body whose label is malformed: no match of the
\* label expression, or a tail outside ValidIndexTails
MalformedIndexEntries(entries) ==
  {i \in DOMAIN entries :
     entries[i].index /\ (entries[i].k.ident = "" \/ entries[i].k.tail \notin ValidIndexTails)}

\* C22: an index-signature label is accepted by the inline-object parser only
\* if the text after the closing ']' is one of "", "[]", "?", "?[]", "[]?"; a
\* label with any other tail is rejected with the index-label error and
\* produces no index signature.
C22_IndexLabelTail ==
  [][\A e \in SymbolEntries :
       (ParseSymbolEntry(e) /\ isObjectNode(e.v) /\ MalformedIndexEntries(e.v.entries) # {}) =>
         (pc' = "failed" /\ parseErr' = ErrIndexLabel)]_vars

\* the names the $ref schemas occurring in a schema point to
RefSchemas(root) == {s \in SubSchemas(root) : "ref" \in DOMAIN s}
RefTargets(root) == {s.ref[3] : s \in RefSchemas(root)}

\* C23: no dangling references: in every schema returned by either emitter,
\* each $ref occurring anywhere (root properties, $defs entries, array items,
\* anyOf members, additionalProperties schemas) names a key of that same
\* output's $defs.
C23_NoDanglingRefs ==
  /\ OpenAIOk => RefTargets(openai.schema) \subseteq KeySet(openai.schema.defs)
  /\ GeminiOk => RefTargets(gemini.schema) \subseteq KeySet(gemini.schema.defs)

\* both emitters returned a schema with a $ref in array items, in an anyOf or
\* in a $defs entry
C23_Witness ==
  /\ OpenAIOk /\ GeminiOk
  /\ \E s \in SubSchemas(openai.schema) :
       \/ "items" \in DOMAIN s /\ "ref" \in DOMAIN s.items
       \/ "anyOf" \in DOMAIN s /\ \E i \in DOMAIN s.anyOf : "ref" \in DOMAIN s.anyOf[i]
  /\ \E i \in DOMAIN gemini.schema.defs : RefSchemas(gemini.schema.defs[i].val) # {}

\* the run of each emitter over the parsed document, up to the root schema:
\* its context holds the final defs, stack and history
OpenAIRun == O_rootSymbols(O_ensureAll(EmitCtxOpenAI(doc), 1))
GeminiRun == G_rootSymbols(G_ensureAll(EmitCtxGemini(doc), 1))

EventsOf(history, ev) == {i \in DOMAIN history : history[i].ev = ev}

\* every placeholder was installed for a name that was on the stack
PlaceholdersOnStack(history) ==
  \A i \in EventsOf(history, "placeholder") : history[i].name \in history[i].stack

\* the stack is empty, every declared type's body was emitted exactly once by
\* ensureDef, and every placeholder was overwritten by a later store
CompletedRun(ctx) ==
  /\ ctx.stack = {}
  /\ \A n \in DeclaredNames :
       Cardinality({i \in EventsOf(ctx.history, "emit") : ctx.history[i].name = n}) = 1
  /\ \A i \in EventsOf(ctx.history, "placeholder") :
       \E j \in EventsOf(ctx.history, "store") :
         j > i /\ ctx.history[j].name = ctx.history[i].name

\* C24: placeholder overwrite and stack discipline: in any emitter run a cycle
\* placeholder is installed for a name only while that name is on the
\* visitation stack; when the run completes successfully the stack is empty,
\* each declared type's body has been emitted exactly once by ensureDef, and
\* every $defs entry equals the schema emitted from that type's body (no
\* placeholder survives in the final $defs).
C24_PlaceholderAndStackDiscipline ==
  /\ OpenAIDone =>
       LET run == OpenAIRun
       IN /\ PlaceholdersOnStack(run.ctx.history)
          /\ OpenAIOk =>
               /\ run.err = NoErr
               /\ CompletedRun(run.ctx)
               /\ \A i \in DOMAIN openai.schema.defs :
                    openai.schema.defs[i].val
                      = O_emit(EmitCtxOpenAI(doc),
                               MapGet(types, openai.schema.defs[i].key).node).val
  /\ GeminiDone =>
       LET run == GeminiRun
       IN /\ PlaceholdersOnStack(run.ctx.history)
          /\ GeminiOk =>
               /\ run.err = NoErr
               /\ CompletedRun(run.ctx)
               /\ \A i \in DOMAIN gemini.schema.defs :
                    gemini.schema.defs[i].val
                      = G_emit(EmitCtxGemini(doc),
                               MapGet(types, gemini.schema.defs[i].key).node).val

\* both emitters completed a run over two declared types in which a
\* placeholder was installed for a recursive type
C24_Witness ==
  /\ OpenAIOk /\ GeminiOk
  /\ EventsOf(OpenAIRun.ctx.history, "placeholder") # {}
  /\ EventsOf(GeminiRun.ctx.history, "placeholder") # {}
  /\ Cardinality(DeclaredNames) = 2

\* C25: the required array of every emitted object schema (root and nested,
\* both dialects) contains no name more than once, for every document the
\* parser accepts, including documents where an enum-domain index-signature
\* key coincides with an explicit property name, where two enum-domain
\* signatures share a key, or where two labels reduce to the same name.
C25_RequiredUnique ==
  /\ OpenAIOk => \A s \in ObjectSchemas(openai.schema) : NoDuplicates(s.required)
  /\ GeminiOk => \A s \in ObjectSchemas(gemini.schema) : NoDuplicates(s.required)
====
